---- MODULE Spec2Model ----
(***************************************************************************)
(* Swimlane synchronisation of a Jira dashboard with an issue's labels.    *)
(*                                                                         *)
(* The model follows the changelog-driven version of the program           *)
(* (src/unnamed/part_000).  A Go string is a sequence of atoms (opaque     *)
(* chunks of text, none of which is a concatenation of others), so that    *)
(* strings.Split and fmt.Sprintf are computed and string equality is       *)
(* equality of sequences.  An error is the sequence of its frames,         *)
(* outermost first; nil is the empty sequence.                             *)
(*                                                                         *)
(* The tracker (Jira) is the environment: it holds one swimlane list per   *)
(* dashboard id the program addresses, answers a GET with that list,       *)
(* removes the swimlane a DELETE names if it has one, and accepts or       *)
(* refuses a POST.  Every call can also fail at login or in transport.     *)
(***************************************************************************)
EXTENDS Integers, Sequences, FiniteSets, TLC

VARIABLES
    dashboards,   \* tracker state: dashboard id -> sequence of swimlane
    before,       \* dashboards when the last event's handling started
    newIssue,     \* the issue of the last event handled
    oldIssue,     \* its earlier snapshot (the snapshot-driven revision only)
    changelog,    \* the changelog of the last event handled
    oldLabels,    \* the labels getLabelsFromChangelog returned for it
    newLabels,
    dashboardID,  \* the dashboard getDashboardID chose for it
    updates,      \* the swimlaneUpdates getSwimlaneUpdates returned for it
    err,          \* the error updateDashboardIfNeed returned for it
    requests,     \* the tracker calls made while handling it, in order
    pc            \* "idle": no event yet; "pending" / "snapshots": one waits;
                  \* "done" / "decided": the last one was handled

vars == <<dashboards, before, newIssue, oldIssue, changelog, oldLabels, newLabels,
          dashboardID, updates, err, requests, pc>>

----------------------------------------------------------------------------
(* Program constants                                                       *)

labelsFieldID == <<"labels">>
summaryFieldID == <<"summary">>
swimlaneStoryLabel == <<"swimline-story">>
createAction == <<"create">>
removeAction == <<"remove">>
recyclingTeamLabel == <<"recycling-nsk">>
recyclingTeamDashboardID == 351

(* Bounds of the model                                                     *)
MaxSwimlanes == 2

----------------------------------------------------------------------------
(* Strings and errors                                                      *)

nil == <<>>

\* errors.Wrap / errors.Wrapf: a new outermost frame around the cause
Wrap(cause, msg, arg) == <<[msg |-> msg, arg |-> arg]>> \o cause

\* index of the first occurrence of sep in s, 0 when there is none
Index(s, sep) ==
    LET hits == {i \in 1..(Len(s) - Len(sep) + 1) :
                    SubSeq(s, i, i + Len(sep) - 1) = sep}
    IN IF hits = {} THEN 0 ELSE CHOOSE i \in hits : \A j \in hits : i <= j

\* strings.Split(s, sep) for a non-empty sep: the pieces between the
\* non-overlapping occurrences of sep; Split("", sep) is one empty piece
RECURSIVE Split(_, _)
Split(s, sep) ==
    LET i == Index(s, sep)
    IN IF i = 0
       THEN <<s>>
       ELSE <<SubSeq(s, 1, i - 1)>> \o Split(SubSeq(s, i + Len(sep), Len(s)), sep)

----------------------------------------------------------------------------
(* Pure functions of the decision engine                                   *)

has(array, value) == \E i \in 1..Len(array) : array[i] = value

\* a variant that takes the first item whatever its field
getLabelsFromChangelog_anyField(items) ==
    IF Len(items) = 0
    THEN <<nil, nil>>
    ELSE <<Split(items[1].FromString, <<",">>), Split(items[1].ToString, <<",">>)>>

getLabelsFromChangelog(items) ==
    LET hits == {i \in 1..Len(items) : items[i].Field = labelsFieldID}
    IN IF hits = {}
       THEN <<nil, nil>>
       ELSE LET i == CHOOSE k \in hits : \A j \in hits : k <= j
            IN <<Split(items[i].FromString, <<",">>),
                 Split(items[i].ToString, <<",">>)>>

getLabelsField(fields) ==
    LET hits == {i \in 1..Len(fields) : fields[i].ID = labelsFieldID}
        labelsText == IF hits = {} THEN <<>>
                      ELSE fields[CHOOSE k \in hits : \A j \in hits : k <= j].Text
    IN Split(labelsText, <<",", " ">>)

getDashboardID(new) ==
    IF \E i \in 1..Len(new) : new[i] = recyclingTeamLabel
    THEN recyclingTeamDashboardID
    ELSE 0

\* a variant that does not look at the old labels
isNeedToCreateSwimlane_ignoreOld(new, old) == has(new, swimlaneStoryLabel)

isNeedToCreateSwimlane(new, old) ==
    has(new, swimlaneStoryLabel) /\ ~has(old, swimlaneStoryLabel)

isNeedToRemoveSwimlane(new, old) ==
    ~has(new, swimlaneStoryLabel) /\ has(old, swimlaneStoryLabel)

\* a variant that compares the swimlane's query with the name
dashboardSwimlaneAlreadyExists_byQuery(currentSwimlanes, newSwimlane) ==
    \E i \in 1..Len(currentSwimlanes) : currentSwimlanes[i].Query = newSwimlane

\* a variant whose scan skips the first swimlane
dashboardSwimlaneAlreadyExists_skipFirst(currentSwimlanes, newSwimlane) ==
    \E i \in 2..Len(currentSwimlanes) : currentSwimlanes[i].Name = newSwimlane

dashboardSwimlaneAlreadyExists(currentSwimlanes, newSwimlane) ==
    \E i \in 1..Len(currentSwimlanes) : currentSwimlanes[i].Name = newSwimlane

\* a variant that returns the last match
getSwimlaneID_lastMatch(name, swimlanes) ==
    LET hits == {i \in 1..Len(swimlanes) : swimlanes[i].Name = name}
    IN IF hits = {} THEN 0
       ELSE swimlanes[CHOOSE k \in hits : \A j \in hits : k >= j].ID

\* a variant that returns the last swimlane scanned when none matches
getSwimlaneID_lastScanned(name, swimlanes) ==
    LET hits == {i \in 1..Len(swimlanes) : swimlanes[i].Name = name}
    IN IF hits = {}
       THEN IF Len(swimlanes) = 0 THEN 0 ELSE swimlanes[Len(swimlanes)].ID
       ELSE swimlanes[CHOOSE k \in hits : \A j \in hits : k <= j].ID

getSwimlaneID(name, swimlanes) ==
    LET hits == {i \in 1..Len(swimlanes) : swimlanes[i].Name = name}
    IN IF hits = {} THEN 0
       ELSE swimlanes[CHOOSE k \in hits : \A j \in hits : k <= j].ID

\* a variant that takes the last "summary" field
getSwimlaneName_lastSummary(issue) ==
    LET hits == {i \in 1..Len(issue.Fields) : issue.Fields[i].ID = summaryFieldID}
    IN IF hits = {}
       THEN <<"<">> \o issue.Key \o <<">", " ">> \o <<"No summary">>
       ELSE <<"<">> \o issue.Key \o <<">", " ">>
              \o issue.Fields[CHOOSE k \in hits : \A j \in hits : k >= j].Text

getSwimlaneName(issue) ==
    LET hits == {i \in 1..Len(issue.Fields) : issue.Fields[i].ID = summaryFieldID}
    IN IF hits = {}
       THEN <<"<">> \o issue.Key \o <<">", " ">> \o <<"No summary">>
       ELSE <<"<">> \o issue.Key \o <<">", " ">>
              \o issue.Fields[CHOOSE k \in hits : \A j \in hits : k <= j].Text

getSwimlaneQuery(issueKey) == <<"issue in linkedIssues(">> \o issueKey \o <<")">>

----------------------------------------------------------------------------
(* The tracker client.  net is what happens to one call: "ok", a failed    *)
(* login ("authFailed") or a failed request ("requestFailed"); a POST the  *)
(* tracker answers with a refusal is "refused" (the client reads the       *)
(* answer and reports no error).                                           *)

Net == {"ok", "authFailed", "requestFailed"}
Replies == Net \cup {"refused"}

Cause(what) == <<[msg |-> what, arg |-> 0]>>

login(net) ==
    IF net = "authFailed" THEN Wrap(Cause("http.Post"), "Auth failed", 0) ELSE nil

\* encoding/json Marshal: the text that encodes v
jsonMarshal(v) == [json |-> v]

\* what the tracker answers to GET uri: the dashboard's configuration
TrackerConfig(uri) == [CurrentViewConfig |-> [Swimlanes |-> dashboards[uri[2]]]]

getFromJiraAPI(uri, net) ==
    IF login(net) # nil
    THEN [body |-> nil, err |-> login(net)]
    ELSE IF net = "requestFailed"
    THEN [body |-> nil,
          err |-> Wrap(Cause("client.Do"), "Jira api request failed", uri)]
    ELSE [body |-> TrackerConfig(uri), err |-> nil]

postToJiraAPI(uri, data, net) ==
    IF login(net) # nil
    THEN [sent |-> nil, err |-> login(net)]
    ELSE IF net = "requestFailed"
    THEN [sent |-> nil,
          err |-> Wrap(Cause("client.Do"), "Jira api request failed", uri)]
    ELSE [sent |-> jsonMarshal(data), err |-> nil]

deleteFromJiraAPI(uri, net) ==
    IF login(net) # nil
    THEN login(net)
    ELSE IF net = "requestFailed"
    THEN Wrap(Cause("client.Do"), "Jira api request failed", uri)
    ELSE nil

getCurrentDashboard(ID, net) ==
    LET uri == <<"xboard/config.json", ID>>
        r == getFromJiraAPI(uri, net)
    IN IF r.err # nil
       THEN [dashboard |-> [CurrentViewConfig |-> [Swimlanes |-> nil]],
             err |-> Wrap(r.err, "Can not get current dashboard", ID)]
       ELSE [dashboard |-> r.body, err |-> nil]

\* a variant that drops the error of the fetch
getCurrentSwimlanes_dropError(ID, net) ==
    [swimlanes |-> getCurrentDashboard(ID, net).dashboard.CurrentViewConfig.Swimlanes,
     err |-> nil]

getCurrentSwimlanes(ID, net) ==
    LET r == getCurrentDashboard(ID, net)
    IN IF r.err # nil
       THEN [swimlanes |-> nil,
             err |-> Wrap(r.err, "Can not get current swimlanes", 0)]
       ELSE [swimlanes |-> r.dashboard.CurrentViewConfig.Swimlanes, err |-> nil]

removeSwimlane(ID, swimlaneID, net) ==
    deleteFromJiraAPI(<<"swimlanes", ID, swimlaneID>>, net)

\* the request it sends (sent) and the error it returns (err)
createSwimlane(ID, upd, net) ==
    LET data == [name |-> upd.Name, query |-> upd.Query]
        body == jsonMarshal(data)
    IN postToJiraAPI(<<"swimlanes", ID>>, body, net)

----------------------------------------------------------------------------
(* The decision                                                            *)

\* swimlaneUpdates{}
NoUpdates == [ID |-> 0, Name |-> <<>>, Action |-> <<>>, Query |-> <<>>]

getSwimlaneUpdates(ID, issue, old, new, net) ==
    LET r == getCurrentSwimlanes(ID, net)
        currentSwimlanes == r.swimlanes
        swimlaneName == getSwimlaneName(issue)
        needToCreateSwimlanes == isNeedToCreateSwimlane(new, old)
        created == IF needToCreateSwimlanes
                   THEN [ID |-> 0, Name |-> swimlaneName, Action |-> createAction,
                         Query |-> getSwimlaneQuery(issue.Key)]
                   ELSE NoUpdates
        result == IF isNeedToRemoveSwimlane(new, old)
                  THEN [ID |-> getSwimlaneID(swimlaneName, currentSwimlanes),
                        Name |-> swimlaneName, Action |-> removeAction,
                        Query |-> <<>>]
                  ELSE created
    IN IF r.err # nil
       THEN [updates |-> NoUpdates, err |-> r.err]
       ELSE IF needToCreateSwimlanes
               /\ dashboardSwimlaneAlreadyExists(currentSwimlanes, swimlaneName)
       THEN [updates |-> NoUpdates, err |-> nil]
       ELSE [updates |-> result, err |-> nil]

----------------------------------------------------------------------------
(* The tracker's side of a mutation                                        *)

\* the identity the tracker gives a new swimlane: the least positive
\* integer no swimlane of the dashboard carries
FreshID(ID) ==
    LET used == {dashboards[ID][i].ID : i \in 1..Len(dashboards[ID])}
    IN CHOOSE n \in 1..(Len(dashboards[ID]) + 1) :
          n \notin used /\ \A m \in 1..(n - 1) : m \in used

TrackerCreate(ID, sent) ==
    [dashboards EXCEPT ![ID] =
        Append(@, [ID |-> FreshID(ID), Name |-> sent.json.json.name,
                   Query |-> sent.json.json.query])]

TrackerDelete(ID, swimlaneID) ==
    [dashboards EXCEPT ![ID] = SelectSeq(@, LAMBDA s : s.ID # swimlaneID)]

\* the tracker takes no swimlane beyond MaxSwimlanes on a dashboard
CanCreate(ID) == Len(dashboards[ID]) < MaxSwimlanes

Call(method, ID, net) == [method |-> method, dashboard |-> ID, result |-> net]

----------------------------------------------------------------------------
(* The handler of one event                                                *)

updateDashboardIfNeed(issue, log) ==
    LET labels == getLabelsFromChangelog(log.Dataset.Items)
        ID == getDashboardID(labels[2])
    IN \E fetch \in Net :
        LET r == getSwimlaneUpdates(ID, issue, labels[1], labels[2], fetch)
        IN /\ newIssue' = issue
           /\ UNCHANGED oldIssue
           /\ changelog' = log
           /\ oldLabels' = labels[1]
           /\ newLabels' = labels[2]
           /\ dashboardID' = ID
           /\ before' = dashboards
           /\ updates' = r.updates
           /\ pc' = "done"
           /\ \/ /\ r.err # nil
                 /\ err' = r.err
                 /\ requests' = <<Call("GET", ID, fetch)>>
                 /\ UNCHANGED dashboards
              \/ /\ r.err = nil
                 /\ r.updates.Action = removeAction
                 /\ \E send \in Net :
                      /\ err' = removeSwimlane(ID, r.updates.ID, send)
                      /\ requests' = <<Call("GET", ID, fetch),
                                       Call("DELETE", ID, send)>>
                      /\ dashboards' = IF send = "ok"
                                       THEN TrackerDelete(ID, r.updates.ID)
                                       ELSE dashboards
              \/ /\ r.err = nil
                 /\ r.updates.Action # removeAction
                 /\ r.updates.Action = createAction
                 /\ \E send \in Replies :
                      /\ send = "ok" => CanCreate(ID)
                      /\ err' = nil
                      /\ requests' = <<Call("GET", ID, fetch),
                                       Call("POST", ID, send)>>
                      /\ dashboards' =
                           IF send = "ok"
                           THEN TrackerCreate(ID, createSwimlane(ID, r.updates, send).sent)
                           ELSE dashboards
              \/ /\ r.err = nil
                 /\ r.updates.Action # removeAction
                 /\ r.updates.Action # createAction
                 /\ err' = nil
                 /\ requests' = <<Call("GET", ID, fetch)>>
                 /\ UNCHANGED dashboards

----------------------------------------------------------------------------
(* The snapshot-driven revision (src/jira-api.go): the labels come from    *)
(* the "labels" field of two snapshots of the issue, the swimlaneUpdates   *)
(* carry no identity (ID stays 0 here) and nothing is sent to the tracker. *)

getSwimlaneUpdatesFromIssues(ID, new, old, net) ==
    LET newL == getLabelsField(new.Fields)
        oldL == getLabelsField(old.Fields)
        r == getCurrentSwimlanes(ID, net)
        currentSwimlanes == r.swimlanes
        swimlaneName == getSwimlaneName(new)
        needToCreateSwimlanes == isNeedToCreateSwimlane(newL, oldL)
        created == IF needToCreateSwimlanes
                   THEN [ID |-> 0, Name |-> swimlaneName, Action |-> createAction,
                         Query |-> getSwimlaneQuery(new.Key)]
                   ELSE NoUpdates
        result == IF isNeedToRemoveSwimlane(newL, oldL)
                  THEN [ID |-> 0, Name |-> swimlaneName, Action |-> removeAction,
                        Query |-> <<>>]
                  ELSE created
    IN IF r.err # nil
       THEN [updates |-> NoUpdates, err |-> r.err]
       ELSE IF needToCreateSwimlanes
               /\ dashboardSwimlaneAlreadyExists(currentSwimlanes, swimlaneName)
       THEN [updates |-> NoUpdates, err |-> nil]
       ELSE [updates |-> result, err |-> nil]

updateDashboardFromIssues(old, new, ID) ==
    \E fetch \in Net :
        LET r == getSwimlaneUpdatesFromIssues(ID, new, old, fetch)
        IN /\ newIssue' = new
           /\ oldIssue' = old
           /\ oldLabels' = getLabelsField(old.Fields)
           /\ newLabels' = getLabelsField(new.Fields)
           /\ dashboardID' = ID
           /\ before' = dashboards
           /\ updates' = r.updates
           /\ err' = r.err
           /\ requests' = <<Call("GET", ID, fetch)>>
           /\ pc' = "decided"
           /\ UNCHANGED <<dashboards, changelog>>

----------------------------------------------------------------------------
(* Inputs                                                                  *)

DashboardIDs == {0, recyclingTeamDashboardID}

Keys == {<<"PROJ-1">>, <<"PROJ-2">>}

Field(id, text) == [ID |-> id, Text |-> text]

\* no summary; one; two (the first wins); one behind another field
FieldLists ==
    {<<>>,
     <<Field(summaryFieldID, <<"Fix crash">>)>>,
     <<Field(summaryFieldID, <<"Other">>), Field(summaryFieldID, <<"Fix crash">>)>>,
     <<Field(<<"description">>, <<"Other">>), Field(summaryFieldID, <<"Fix crash">>)>>}

Issues == [Key : Keys, Fields : FieldLists]

NoIssue == [Key |-> <<>>, Fields |-> <<>>]

\* the from/to texts of a changelog item: "", one label, two labels joined
\* by ",", and two joined by ", " (which "," splits into "bug" and
\* " swimline-story")
LabelTexts ==
    {<<>>,
     swimlaneStoryLabel,
     recyclingTeamLabel,
     recyclingTeamLabel \o <<",">> \o swimlaneStoryLabel,
     <<"bug">> \o <<",">> \o recyclingTeamLabel,
     <<"bug">> \o <<",", " ">> \o swimlaneStoryLabel}

Item(f, from, to) == [Field |-> f, FromString |-> from, ToString |-> to]

StatusItem == Item(<<"status">>, <<"Open">>, <<"Done">>)

Log(items) == [Dataset |-> [Items |-> items]]

\* no item, no labels item, a labels item alone, one behind another item,
\* and two labels items (the first wins)
Changelogs ==
    {Log(<<>>), Log(<<StatusItem>>)}
    \cup {Log(<<Item(labelsFieldID, f, t)>>) : f \in LabelTexts, t \in LabelTexts}
    \cup {Log(<<StatusItem, Item(labelsFieldID, f, t)>>) :
            f \in LabelTexts, t \in LabelTexts}
    \cup {Log(<<Item(labelsFieldID, f, t), Item(labelsFieldID, t, f)>>) :
            f \in LabelTexts, t \in LabelTexts}

Swimlane(id, name) == [ID |-> id, Name |-> name, Query |-> <<>>]

SwimlaneNames ==
    {<<"Expedite">>,
     <<"<", "PROJ-1", ">", " ", "Fix crash">>,
     <<"<", "PROJ-1", ">", " ", "No summary">>}

\* the swimlane lists of at most MaxSwimlanes swimlanes, identities distinct
SwimlaneLists ==
    UNION {{l \in [1..n -> {Swimlane(i, nm) : i \in 1..MaxSwimlanes, nm \in SwimlaneNames}] :
              \A i, j \in 1..n : i # j => l[i].ID # l[j].ID} : n \in 0..MaxSwimlanes}

\* the text of a "labels" field: labels joined by ", ", and one joined by ","
FieldLabelTexts ==
    {<<>>,
     swimlaneStoryLabel,
     <<"bug">> \o <<",", " ">> \o swimlaneStoryLabel,
     <<"bug">> \o <<",">> \o swimlaneStoryLabel}

OldSnapshots ==
    {[Key |-> <<"PROJ-1">>, Fields |-> <<>>]}
    \cup {[Key |-> <<"PROJ-1">>, Fields |-> <<Field(labelsFieldID, t)>>] :
            t \in FieldLabelTexts}

NewSnapshots ==
    {[Key |-> <<"PROJ-1">>, Fields |-> <<Field(labelsFieldID, t)>>] :
        t \in FieldLabelTexts}
    \cup {[Key |-> <<"PROJ-1">>,
           Fields |-> <<Field(summaryFieldID, <<"Fix crash">>),
                        Field(labelsFieldID, t)>>] : t \in FieldLabelTexts}

DistinctNames(l) == \A i, j \in 1..Len(l) : i # j => l[i].Name # l[j].Name

----------------------------------------------------------------------------
(* One event against every dashboard state: the event waits in the initial *)
(* state and is handled once.                                              *)

InitDecide ==
    /\ \/ /\ pc = "pending"
          /\ newIssue \in Issues
          /\ oldIssue = NoIssue
          /\ changelog \in Changelogs
          /\ dashboardID = 0
       \/ /\ pc = "snapshots"
          /\ newIssue \in NewSnapshots
          /\ oldIssue \in OldSnapshots
          /\ changelog = Log(<<>>)
          /\ dashboardID \in DashboardIDs
    /\ \E l \in SwimlaneLists : dashboards = [d \in DashboardIDs |-> l]
    /\ before = dashboards
    /\ oldLabels = nil
    /\ newLabels = nil
    /\ updates = NoUpdates
    /\ err = nil
    /\ requests = <<>>

HandlePending ==
    /\ pc = "pending"
    /\ updateDashboardIfNeed(newIssue, changelog)

HandleSnapshots ==
    /\ pc = "snapshots"
    /\ updateDashboardFromIssues(oldIssue, newIssue, dashboardID)

NextDecide == HandlePending \/ HandleSnapshots

SpecDecide == InitDecide /\ [][NextDecide]_vars

----------------------------------------------------------------------------
(* Events handled one after the other, each to its end before the next.    *)

EventIssues ==
    {[Key |-> <<"PROJ-1">>, Fields |-> <<Field(summaryFieldID, <<"Fix crash">>)>>],
     [Key |-> <<"PROJ-2">>, Fields |-> <<>>]}

EventChangelogs ==
    {Log(<<StatusItem>>),
     Log(<<Item(labelsFieldID, recyclingTeamLabel,
                recyclingTeamLabel \o <<",">> \o swimlaneStoryLabel)>>),
     Log(<<Item(labelsFieldID, recyclingTeamLabel \o <<",">> \o swimlaneStoryLabel,
                recyclingTeamLabel)>>),
     Log(<<Item(labelsFieldID, <<>>, swimlaneStoryLabel)>>),
     Log(<<Item(labelsFieldID, swimlaneStoryLabel, <<>>)>>)}

\* the team's dashboard before the first event: empty, or the swimlanes its
\* owner made by hand, one of them named like an issue's
InitialSwimlanes ==
    {<<>>,
     <<Swimlane(1, <<"Expedite">>)>>,
     <<Swimlane(1, <<"<", "PROJ-1", ">", " ", "Fix crash">>)>>}

Init ==
    /\ pc = "idle"
    /\ \E l \in InitialSwimlanes :
          dashboards = [d \in DashboardIDs |->
                           IF d = recyclingTeamDashboardID THEN l ELSE <<>>]
    /\ before = dashboards
    /\ newIssue = NoIssue
    /\ oldIssue = NoIssue
    /\ changelog = Log(<<>>)
    /\ oldLabels = nil
    /\ newLabels = nil
    /\ dashboardID = 0
    /\ updates = NoUpdates
    /\ err = nil
    /\ requests = <<>>

HandleEvent ==
    /\ pc \in {"idle", "done"}
    /\ \E issue \in EventIssues, log \in EventChangelogs :
          updateDashboardIfNeed(issue, log)

Next == HandleEvent

Spec == Init /\ [][Next]_vars

----------------------------------------------------------------------------
(* What the properties speak of                                            *)

Range(q) == {q[i] : i \in 1..Len(q)}

Trigger == <<"swimline-story">>

\* the swimlanes of the event's dashboard when its handling started
Current == before[dashboardID]

Handled == pc = "done"

FetchOk == requests[1].result = "ok"

Failed(call) == call.result \in {"authFailed", "requestFailed"}

Mutations == {i \in 1..Len(requests) : requests[i].method \in {"POST", "DELETE"}}

\* "<" + key + "> " + the text of the first field with id "summary", or
\* "<" + key + "> No summary"
IsDerivedName(name, issue) ==
    LET f == issue.Fields
    IN \/ /\ \A i \in 1..Len(f) : f[i].ID # <<"summary">>
          /\ name = <<"<">> \o issue.Key \o <<">", " ", "No summary">>
       \/ \E i \in 1..Len(f) :
             /\ f[i].ID = <<"summary">>
             /\ \A j \in 1..(i - 1) : f[j].ID # <<"summary">>
             /\ name = <<"<">> \o issue.Key \o <<">", " ">> \o f[i].Text

DerivedNameExists ==
    \E i \in 1..Len(Current) : IsDerivedName(Current[i].Name, newIssue)

NoOp == updates = [ID |-> 0, Name |-> <<>>, Action |-> <<>>, Query |-> <<>>]

NoLabelsItem ==
    \A i \in 1..Len(changelog.Dataset.Items) :
        changelog.Dataset.Items[i].Field # <<"labels">>

----------------------------------------------------------------------------
(* C1: Create is never decided for a name a swimlane of the dashboard      *)
(* already carries, in either revision; and when the trigger label was     *)
(* added while a swimlane with the derived name exists, the decision is    *)
(* NoOp.                                                                   *)
C1_NeverCreateExisting ==
    pc \in {"done", "decided"} =>
        /\ updates.Action = <<"create">> =>
              \A i \in 1..Len(Current) : Current[i].Name # updates.Name
        /\ (Trigger \in Range(newLabels) /\ Trigger \notin Range(oldLabels)
              /\ DerivedNameExists) => NoOp

C1_Witness ==
    /\ pc \in {"done", "decided"}
    /\ FetchOk
    /\ Trigger \in Range(newLabels)
    /\ Trigger \notin Range(oldLabels)
    /\ DerivedNameExists
    /\ Len(Current) = 2
    /\ NoOp

(* C2: when the trigger label was added and no swimlane carries the        *)
(* derived name, the decision on the fetched swimlanes is Create with the  *)
(* derived name and the query "issue in linkedIssues(" + key + ")".        *)
C2_CreateNameAndQuery ==
    (Handled /\ FetchOk /\ Trigger \in Range(newLabels)
       /\ Trigger \notin Range(oldLabels) /\ ~DerivedNameExists) =>
        /\ updates.Action = <<"create">>
        /\ IsDerivedName(updates.Name, newIssue)
        /\ updates.Query = <<"issue in linkedIssues(">> \o newIssue.Key \o <<")">>

C2_Witness ==
    /\ Handled
    /\ updates.Action = <<"create">>
    /\ Len(newIssue.Fields) = 2
    /\ newIssue.Fields[1].ID = <<"summary">>
    /\ newIssue.Fields[2].ID = <<"summary">>
    /\ updates.Name = <<"<", "PROJ-1", ">", " ", "Other">>
    /\ Len(Current) > 0

(* C3: when the trigger label was removed, the decision on the fetched     *)
(* swimlanes is Remove with the derived name and the identity of the first *)
(* swimlane, in list order, that carries that name, or 0 when none does;   *)
(* no error is returned and the decision is not NoOp.                      *)
C3_RemoveFirstMatch ==
    (Handled /\ FetchOk /\ Trigger \in Range(oldLabels)
       /\ Trigger \notin Range(newLabels)) =>
        /\ updates.Action = <<"remove">>
        /\ IsDerivedName(updates.Name, newIssue)
        /\ \/ /\ ~DerivedNameExists
              /\ updates.ID = 0
           \/ \E i \in 1..Len(Current) :
                 /\ Current[i].Name = updates.Name
                 /\ \A j \in 1..(i - 1) : Current[j].Name # updates.Name
                 /\ updates.ID = Current[i].ID
        /\ requests[2].method = "DELETE"

C3_Witness ==
    /\ Handled
    /\ updates.Action = <<"remove">>
    /\ Len(Current) = 2
    /\ Current[1].Name = updates.Name
    /\ Current[2].Name = updates.Name
    /\ updates.ID = Current[1].ID
    /\ Current[1].ID # Current[2].ID

(* C4: when the fetch of the dashboard's swimlanes fails, the handler      *)
(* returns an error that names the dashboard id, the decision is empty, no *)
(* create or delete request is made and the dashboard is as it was.        *)
C4_FetchFailureAborts ==
    (Handled /\ Failed(requests[1])) =>
        /\ \E i \in 1..Len(err) :
              /\ err[i].msg = "Can not get current dashboard"
              /\ err[i].arg = dashboardID
        /\ NoOp
        /\ Mutations = {}
        /\ dashboards = before

C4_Witness ==
    /\ Handled
    /\ Failed(requests[1])
    /\ Trigger \in Range(newLabels)
    /\ Trigger \notin Range(oldLabels)
    /\ dashboardID = 351
    /\ Len(err) > 0

(* C5: whenever a tracker call made for an event fails, the handler        *)
(* returns an error.                                                       *)
C5_EveryFailureReturned ==
    Handled =>
        ((\E i \in 1..Len(requests) : Failed(requests[i])) => err # <<>>)

(* C6, as claimed: a changelog without a "labels" item gives two empty     *)
(* label lists and the event ends with NoOp, no error and no create or     *)
(* delete request.                                                         *)
C6_NoLabelsNoError ==
    (Handled /\ NoLabelsItem) =>
        /\ oldLabels = <<>>
        /\ newLabels = <<>>
        /\ NoOp
        /\ err = <<>>
        /\ Mutations = {}

(* C6, amended: a changelog without a "labels" item gives two empty label  *)
(* lists and the event ends with NoOp and no create or delete request; an  *)
(* error is returned exactly when the fetch of the dashboard's swimlanes   *)
(* failed.                                                                 *)
C6_NoLabelsNoMutation ==
    (Handled /\ NoLabelsItem) =>
        /\ oldLabels = <<>>
        /\ newLabels = <<>>
        /\ NoOp
        /\ Mutations = {}
        /\ dashboards = before
        /\ (err = <<>>) <=> FetchOk

C6_Witness ==
    /\ Handled
    /\ NoLabelsItem
    /\ Len(changelog.Dataset.Items) > 0
    /\ FetchOk
    /\ Len(Current) > 0
    /\ err = <<>>

(* C7: when the trigger label is in both label lists or in neither, the    *)
(* decision is NoOp, whatever the other labels, the issue and the          *)
(* swimlanes.                                                              *)
C7_NoTriggerChangeNoOp ==
    (Handled /\ (Trigger \in Range(oldLabels) <=> Trigger \in Range(newLabels)))
        => NoOp

C7_Witness ==
    /\ Handled
    /\ FetchOk
    /\ Trigger \in Range(oldLabels)
    /\ Trigger \in Range(newLabels)
    /\ Range(oldLabels) # Range(newLabels)
    /\ ~DerivedNameExists
    /\ NoOp

(* C8 speaks of label lists for which both isNeedToCreateSwimlane and      *)
(* isNeedToRemoveSwimlane hold.  No label lists do: its case never occurs. *)
CreateAndRemoveExclude ==
    ~(isNeedToCreateSwimlane(newLabels, oldLabels)
        /\ isNeedToRemoveSwimlane(newLabels, oldLabels))

(* C9: when the trigger label was removed and no swimlane of the dashboard *)
(* carries the derived name, the Remove carries identity 0 and a DELETE is *)
(* sent for it; when that call goes through, no error is returned and the  *)
(* dashboards are as they were.                                            *)
C9_RemoveAbsentIsNoOp ==
    (Handled /\ FetchOk /\ Trigger \in Range(oldLabels)
       /\ Trigger \notin Range(newLabels) /\ ~DerivedNameExists) =>
        /\ updates.Action = <<"remove">>
        /\ updates.ID = 0
        /\ Len(requests) = 2
        /\ requests[2].method = "DELETE"
        /\ requests[2].result = "ok" => (err = <<>> /\ dashboards = before)

C9_Witness ==
    /\ Handled
    /\ updates.Action = <<"remove">>
    /\ updates.ID = 0
    /\ Len(Current) > 0
    /\ requests[2].result = "ok"
    /\ dashboards = before

(* C10: with events handled one after the other from a dashboard whose     *)
(* swimlane names are pairwise distinct, the names of every dashboard stay *)
(* pairwise distinct, and an event makes at most one create or delete      *)
(* request.                                                                *)
C10_NamesStayDistinct ==
    /\ \A d \in DashboardIDs : DistinctNames(dashboards[d])
    /\ Cardinality(Mutations) <= 1

C10_Witness ==
    /\ Handled
    /\ Len(requests) = 2
    /\ requests[2].method = "POST"
    /\ requests[2].result = "ok"
    /\ Len(before[dashboardID]) = 1
    /\ Len(dashboards[dashboardID]) = 2

====
